---- MODULE Spec2Model ----
(***************************************************************************)
(* Model of DataBase/data.py: the 32-bit Pointer, the Line Index of a page *)
(* and the DB_Page built over a PAGE_SIZE byte buffer.                     *)
(*                                                                         *)
(* Bytes objects are sequences of integers in 0..255.  Python's slicing,   *)
(* int.from_bytes and int.to_bytes are modelled by what they compute.      *)
(* A raised exception is recorded by its name in err; "" is "no error".    *)
(* An optional object is a sequence of length 0 (absent) or 1 (present).   *)
(*                                                                         *)
(* data.py is a prototype: names that do not resolve as written are read   *)
(* as the surrounding code intends them (self.page in DB_Page.__init__ is  *)
(* self._page, self.Line is LineIndex.Line, iterating a LineIndex iterates *)
(* its _entries, Record(record_type, data) is the Record with that type    *)
(* and data).  Every slice bound and loop range is taken as written.       *)
(***************************************************************************)
EXTENDS Integers, Sequences, FiniteSets, TLC

VARIABLES
    op,             \* name of the last operation applied
    args,           \* its arguments
    err,            \* the exception it raised, "" if none
    made,           \* Pointer built by Pointer(page, line), optional
    decoded,        \* Pointer built by Pointer.from_bytes, optional
    _contents,      \* bytes handed to LineIndex(contents)
    _entries,       \* LineIndex._entries
    _page,          \* DB_Page._page: the mapped page, see mmap_bytes
    _page_header,   \* DB_Page._page_header, optional
    _page_trailer,  \* DB_Page._page_trailer, optional
    _line_index,    \* DB_Page._line_index, optional
    _records,       \* DB_Page._records
    status,         \* "closed", "open" (DB_Page constructed) or "failed"
    got,            \* result of the last __getitem__, optional
    nops            \* number of item operations applied to the open page

vars == <<op, args, err, made, decoded, _contents, _entries, _page, _page_header,
          _page_trailer, _line_index, _records, status, got, nops>>

pointerVars == <<made, decoded>>
indexVars == <<_contents, _entries>>
pageVars == <<_page, _page_header, _page_trailer, _line_index, _records,
              status, got, nops>>

-----------------------------------------------------------------------------
(* Python built-ins used by data.py *)

Min(a, b) == IF a < b THEN a ELSE b

Max(a, b) == IF a > b THEN a ELSE b

\* s[start:stop] for explicit integer bounds: negative bounds count from the
\* end, both are clamped to 0..len(s), an empty range gives b''.
PySlice(s, start, stop) ==
    LET n  == Len(s)
        lo == IF start < 0 THEN Max(start + n, 0) ELSE Min(start, n)
        hi == IF stop < 0 THEN Max(stop + n, 0) ELSE Min(stop, n)
    IN  IF lo < hi THEN SubSeq(s, lo + 1, hi) ELSE <<>>

\* s[start:]
PySliceFrom(s, start) == PySlice(s, start, Len(s))

\* s[:stop]
PySliceTo(s, stop) == PySlice(s, 0, stop)

\* int.from_bytes(b): big-endian, unsigned; 0 for b''.
RECURSIVE int_from_bytes(_)
int_from_bytes(b) ==
    IF b = <<>> THEN 0
    ELSE int_from_bytes(SubSeq(b, 1, Len(b) - 1)) * 256 + b[Len(b)]

RECURSIVE Pow256(_)
Pow256(k) == IF k = 0 THEN 1 ELSE 256 * Pow256(k - 1)

\* n.to_bytes(length=length): big-endian, for 0 <= n < 256^length.
int_to_bytes(n, length) ==
    [i \in 1..length |-> (n \div Pow256(length - i)) % 256]

\* range(start, 0, -8) as the sequence of its values.
RECURSIVE range_down8(_)
range_down8(start) ==
    IF start <= 0 THEN <<>> ELSE <<start>> \o range_down8(start - 8)

-----------------------------------------------------------------------------
(* class Pointer *)

MaxPageNumber == 8388607

MaxLineNumber == 255

\* Pointer(page, line) with the page bound tested by >= instead of >
Pointer_init_offbyone(page, line) ==
    IF page >= MaxPageNumber \/ page < 0 THEN [err |-> "ValueError", obj |-> <<>>]
    ELSE IF line > MaxLineNumber \/ line < 0 THEN [err |-> "ValueError", obj |-> <<>>]
    ELSE [err |-> "",
          obj |-> <<[pointer |-> int_to_bytes(page, 3) \o int_to_bytes(line, 1)]>>]

\* Pointer(page, line)
Pointer_init(page, line) ==
    IF page > MaxPageNumber \/ page < 0 THEN [err |-> "ValueError", obj |-> <<>>]
    ELSE IF line > MaxLineNumber \/ line < 0 THEN [err |-> "ValueError", obj |-> <<>>]
    ELSE [err |-> "",
          obj |-> <<[pointer |-> int_to_bytes(page, 3) \o int_to_bytes(line, 1)]>>]

\* Pointer.from_bytes(chars) rejecting only inputs shorter than 4 bytes
Pointer_from_bytes_atleast(chars) ==
    IF Len(chars) < 4 THEN [err |-> "ValueError", obj |-> <<>>]
    ELSE LET new_pointer == Pointer_init(0, 0).obj[1]
         IN  [err |-> "", obj |-> <<[new_pointer EXCEPT !.pointer = chars]>>]

\* Pointer.from_bytes(chars): a blank Pointer with chars injected as _pointer.
Pointer_from_bytes(chars) ==
    IF Len(chars) # 4 THEN [err |-> "ValueError", obj |-> <<>>]
    ELSE LET new_pointer == Pointer_init(0, 0).obj[1]
         IN  [err |-> "", obj |-> <<[new_pointer EXCEPT !.pointer = chars]>>]

\* Pointer.page reading _pointer[1:] instead of _pointer[:3]
Pointer_page_tail(p) == int_from_bytes(PySliceFrom(p.pointer, 1))

\* Pointer.page
Pointer_page(p) == int_from_bytes(PySliceTo(p.pointer, 3))

\* Pointer.line
Pointer_line(p) == p.pointer[Len(p.pointer)]

\* Pointer.__eq__
Pointer_eq(p, other) == p.pointer = other.pointer

-----------------------------------------------------------------------------
(* Inputs of the Pointer operations *)

RECURSIVE Pow2(_)
Pow2(k) == IF k = 0 THEN 1 ELSE 2 * Pow2(k - 1)

\* Page numbers: every power of two up to 2^23 = 8388608, its predecessor,
\* the numbers of test_data.py and -1.
PageInputs ==
    {-1, 1812, 2023} \cup {Pow2(k) : k \in 0..23} \cup {Pow2(k) - 1 : k \in 0..23}

\* Line numbers: every byte value, and one below and one above.
LineInputs == -1..256

\* Byte strings handed to from_bytes: every 4-byte string over four byte
\* values, and strings of the other lengths over two.
CharsInputs ==
    [1..4 -> {0, 7, 128, 255}]
    \cup UNION {[1..n -> {0, 255}] : n \in {0, 1, 3, 5, 8}}

None == [none |-> TRUE]

InitPage ==
    /\ _page = None
    /\ _page_header = <<>>
    /\ _page_trailer = <<>>
    /\ _line_index = <<>>
    /\ _records = <<>>
    /\ status = "closed"
    /\ got = <<>>
    /\ nops = 0

InitPointer ==
    /\ op = "init"
    /\ args = None
    /\ err = ""
    /\ made = <<>>
    /\ decoded = <<>>
    /\ _contents = <<>>
    /\ _entries = <<>>
    /\ InitPage

\* p = Pointer(page, line).  The constructors keep nothing between calls:
\* each behaviour builds one Pointer.
PointerCreate ==
    /\ op = "init"
    /\ \E page \in PageInputs, line \in LineInputs :
        LET r == Pointer_init(page, line)
        IN  /\ op' = "create"
            /\ args' = [page |-> page, line |-> line]
            /\ err' = r.err
            /\ made' = r.obj
            /\ decoded' = <<>>
            /\ UNCHANGED <<indexVars, pageVars>>

\* q = Pointer.from_bytes(p._pointer) for the Pointer p built last
PointerRoundTrip ==
    /\ op = "create"
    /\ made # <<>>
    /\ LET r == Pointer_from_bytes(made[1].pointer)
       IN  /\ op' = "roundtrip"
           /\ err' = r.err
           /\ decoded' = r.obj
           /\ UNCHANGED <<args, made, indexVars, pageVars>>

\* q = Pointer.from_bytes(chars)
PointerFromBytes ==
    /\ op = "init"
    /\ \E chars \in CharsInputs :
        LET r == Pointer_from_bytes(chars)
        IN  /\ op' = "from_bytes"
            /\ args' = [chars |-> chars]
            /\ err' = r.err
            /\ made' = <<>>
            /\ decoded' = r.obj
            /\ UNCHANGED <<indexVars, pageVars>>

NextPointer == PointerCreate \/ PointerRoundTrip \/ PointerFromBytes

SpecPointer == InitPointer /\ [][NextPointer]_vars

-----------------------------------------------------------------------------
(* Pointer properties *)

\* C1: decoding the 4 encoded bytes of create(page, line) yields a Pointer
\* equal to create(page, line), whose page is page and whose line is line.
C1_PointerRoundTrip ==
    op = "roundtrip" =>
        /\ err = ""
        /\ decoded # <<>>
        /\ Len(made[1].pointer) = 4
        /\ Pointer_eq(decoded[1], made[1])
        /\ Pointer_page(decoded[1]) = args.page
        /\ Pointer_line(decoded[1]) = args.line

C1_Witness ==
    /\ op = "roundtrip"
    /\ args.page = 8388607
    /\ args.line = 255
    /\ decoded # <<>>

\* C2: create(page, line) raises the range error exactly when page is outside
\* 0..8388607 or line is outside 0..255, and builds a Pointer otherwise;
\* (8388607, 255) succeeds, (8388608, 0), (-1, 0) and (0, 256) fail.
C2_CreateRange ==
    op = "create" =>
        /\ err \in {"", "ValueError"}
        /\ (err = "ValueError") <=>
               (args.page \notin 0..8388607 \/ args.line \notin 0..255)
        /\ (err = "") <=> (made # <<>>)
        /\ (args.page = 8388607 /\ args.line = 255) => made # <<>>
        /\ (args.page = 8388608 /\ args.line = 0) => err = "ValueError"
        /\ (args.page = -1 /\ args.line = 0) => err = "ValueError"
        /\ (args.page = 0 /\ args.line = 256) => err = "ValueError"

C2_Witness ==
    /\ op = "create"
    /\ args.page = 8388607
    /\ args.line = 255
    /\ made # <<>>

\* C3: from_bytes builds a Pointer if and only if its input is exactly 4 bytes
\* long; for every other length it raises the length error and builds none.
C3_DecodeLength ==
    op = "from_bytes" =>
        /\ (decoded # <<>>) <=> (Len(args.chars) = 4)
        /\ (Len(args.chars) # 4) => (err = "ValueError" /\ decoded = <<>>)
        /\ (Len(args.chars) = 4) => err = ""

C3_Witness ==
    /\ op = "from_bytes"
    /\ Len(args.chars) = 5
    /\ err = "ValueError"
    /\ decoded = <<>>

\* C4: every Pointer that exists, built by create or by from_bytes, has its
\* page in 0..8388607 and its line in 0..255.
C4_PointerInRange ==
    \A p \in {made, decoded} :
        p # <<>> =>
            /\ Pointer_page(p[1]) \in 0..8388607
            /\ Pointer_line(p[1]) \in 0..255

-----------------------------------------------------------------------------
(* class DB_Page and its nested classes *)

PAGE_SIZE == 4096

\* DB_Page.PageHeader(header)
PageHeader(header) == [header |-> header]

\* PageHeader.page_number
PageHeader_page_number(h) == int_from_bytes(PySliceTo(h.header, 4))

\* DB_Page.PageTrailer(trailer)
PageTrailer(trailer) == [trailer |-> trailer]

\* PageTrailer.line_index_count
PageTrailer_line_index_count(t) == t.trailer[1]

\* PageTrailer.page_number reading _trailer[:4] instead of _trailer[4:]
PageTrailer_page_number_head(t) == int_from_bytes(PySliceTo(t.trailer, 4))

\* PageTrailer.page_number
PageTrailer_page_number(t) == int_from_bytes(PySliceFrom(t.trailer, 4))

\* LineIndex.LineIndexEntry(entry)
LineIndexEntry(entry) == [entry |-> entry]

\* LineIndexEntry.record_type
LineIndexEntry_record_type(e) == int_from_bytes(PySliceTo(e.entry, 2))

\* LineIndexEntry.offset
LineIndexEntry_offset(e) == int_from_bytes(PySlice(e.entry, 2, 4))

\* LineIndexEntry.length
LineIndexEntry_length(e) == int_from_bytes(PySlice(e.entry, 4, 6))

\* LineIndexEntry.pointer_size
LineIndexEntry_pointer_size(e) == int_from_bytes(PySliceFrom(e.entry, 6))

\* LineIndex(contents): one entry contents[-(i+8):-i] for each i of
\* range(len(contents), 0, -8).  No exception is raised for any length.
LineIndex_init(contents) ==
    LET r == range_down8(Len(contents))
    IN  [entries |-> [k \in 1..Len(r) |->
                         LineIndexEntry(PySlice(contents, -(r[k] + 8), -r[k]))]]

\* LineIndex.Line(record_type, line, pointer_count)
Line(record_type, line, pointer_count) ==
    [record_type |-> record_type, line |-> line, pointer_count |-> pointer_count]

\* Line.record: the Record of the line's type over the bytes that follow the
\* pointers, given by its record_type and data.
Line_record(l) ==
    [record_type |-> l.record_type,
     data |-> PySliceFrom(l.line, 4 * l.pointer_count)]

\* DB_Page.__len__
DB_Page_len == Len(_records)

\* A list index as Python resolves it: -1 when out of range, else 1-based.
ListIndex(lst, key) ==
    IF key >= 0 /\ key < Len(lst) THEN key + 1
    ELSE IF key < 0 /\ key >= -Len(lst) THEN key + Len(lst) + 1
    ELSE -1

\* del lst[key] for a valid 1-based position
ListDelete(lst, pos) ==
    SubSeq(lst, 1, pos - 1) \o SubSeq(lst, pos + 1, Len(lst))

-----------------------------------------------------------------------------
(* Page buffers: the layout the docstrings of data.py describe *)

MaxCount == 3

MaxOps == 2

Zeros(n) == [i \in 1..n |-> 0]

RECURSIVE Flatten(_)
Flatten(ss) == IF ss = <<>> THEN <<>> ELSE ss[1] \o Flatten(Tail(ss))

\* The (type, pointers, payload) tuples lines are built from.
TupleInputs ==
    { [type |-> 1,   pointers |-> <<>>, payload |-> <<65, 66>>],
      [type |-> 258, pointers |-> << <<0, 7, 20, 3>> >>, payload |-> <<67>>],
      [type |-> 2,   pointers |-> << <<0, 7, 231, 6>>, <<0, 0, 1, 0>> >>,
                     payload |-> <<>>] }

\* The tuple lists of length n
TupleLists(n) == [1..n -> TupleInputs]

\* A line: its pointers, then the record's bytes.
LineBytes(t) == Flatten(t.pointers) \o t.payload

\* Lines are contiguous after the 24-byte header.
RECURSIVE LineOffset(_, _)
LineOffset(ts, i) ==
    IF i = 1 THEN 24 ELSE LineOffset(ts, i - 1) + Len(LineBytes(ts[i - 1]))

\* The index region and trailer take the last 8 * (n + 1) bytes.
BodyLimit(n) == PAGE_SIZE - 8 * (n + 1)

\* Entry of logical slot i; slot `corrupt` (0: none) locates 8 bytes at the
\* start of the index region instead of its line.
EntryBytes(ts, i, corrupt) ==
    LET off == IF i = corrupt THEN BodyLimit(Len(ts)) ELSE LineOffset(ts, i)
        len == IF i = corrupt THEN 8 ELSE Len(LineBytes(ts[i]))
    IN  int_to_bytes(ts[i].type, 2) \o int_to_bytes(off, 2)
            \o int_to_bytes(len, 2) \o int_to_bytes(Len(ts[i].pointers), 2)

\* The Line Index block: entries in reverse list order, slot 0 last.
IndexRegion(ts, corrupt) ==
    Flatten([k \in 1..Len(ts) |-> EntryBytes(ts, Len(ts) + 1 - k, corrupt)])

BuildPage(ts, header_pn, trailer_pn, corrupt) ==
    LET bodies == Flatten([i \in 1..Len(ts) |-> LineBytes(ts[i])])
        region == IndexRegion(ts, corrupt)
        free   == PAGE_SIZE - 24 - Len(bodies) - Len(region) - 8
        blank  == Pointer_init(0, 0).obj[1].pointer
    IN  int_to_bytes(header_pn, 4) \o blank \o blank
            \o int_to_bytes(free, 2) \o Zeros(10)
            \o bodies \o Zeros(free) \o region
            \o <<Len(ts), 0, 0, 0>> \o int_to_bytes(trailer_pn, 4)

PageNumberInputs == {7, 8}

\* The mapped pages handed to DB_Page: each is named by what it was built
\* from, and mmap_bytes gives the bytes a slice of it reads.
MmapInputs ==
    UNION { { [tuples |-> ts, header_pn |-> hp, trailer_pn |-> tp,
               corrupt |-> c] :
                 ts \in TupleLists(n), hp \in PageNumberInputs,
                 tp \in PageNumberInputs, c \in 0..n }
            : n \in 0..MaxCount }

mmap_bytes(m) == BuildPage(m.tuples, m.header_pn, m.trailer_pn, m.corrupt)

\* DB_Page(page).  The assert is the only statement that raises; the fields
\* assigned before it are set either way.
DB_Page_init(page) ==
    LET buf          == mmap_bytes(page)
        page_header  == PageHeader(PySliceTo(buf, 24))
        page_trailer == PageTrailer(PySliceFrom(buf, -8))
    IN  IF PageHeader_page_number(page_header)
               # PageTrailer_page_number(page_trailer)
        THEN [err |-> "AssertionError", page |-> page,
              page_header |-> <<page_header>>, page_trailer |-> <<page_trailer>>,
              line_index |-> <<>>, records |-> <<>>]
        ELSE LET entry_count == PageTrailer_line_index_count(page_trailer)
                 line_index  ==
                     LineIndex_init(PySlice(buf, -8 * (entry_count + 1), -8))
                 records     ==
                     [k \in 1..Len(line_index.entries) |->
                         LET entry == line_index.entries[k]
                         IN  Line(LineIndexEntry_record_type(entry),
                                  PySlice(buf, LineIndexEntry_offset(entry),
                                          LineIndexEntry_offset(entry)
                                              + LineIndexEntry_length(entry)),
                                  LineIndexEntry_pointer_size(entry))]
             IN  [err |-> "", page |-> page,
                  page_header |-> <<page_header>>,
                  page_trailer |-> <<page_trailer>>,
                  line_index |-> <<line_index>>, records |-> records]


\* Records stored by __setitem__
RecordInputs == { [record_type |-> 9, data |-> <<90>>] }

KeyInputs == -1..MaxCount

-----------------------------------------------------------------------------
(* LineIndex on its own *)

\* Index regions of up to MaxCount entries, whole or cut short at the end.
ContentsInputs ==
    UNION { { LET region == IndexRegion(ts, 0)
              IN  SubSeq(region, 1, Len(region) - cut) : cut \in 0..7 }
            : ts \in UNION {TupleLists(n) : n \in 1..MaxCount} }
    \cup {<<>>}

InitLineIndex ==
    /\ op = "init"
    /\ args = None
    /\ err = ""
    /\ made = <<>>
    /\ decoded = <<>>
    /\ _contents = <<>>
    /\ _entries = <<>>
    /\ InitPage

\* LineIndex(contents)
LineIndexParse ==
    \E c \in ContentsInputs :
        /\ op' = "parse"
        /\ args' = None
        /\ err' = ""
        /\ _contents' = c
        /\ _entries' = LineIndex_init(c).entries
        /\ UNCHANGED <<pointerVars, pageVars>>

NextLineIndex == LineIndexParse

SpecLineIndex == InitLineIndex /\ [][NextLineIndex]_vars

-----------------------------------------------------------------------------
(* DB_Page *)

Init ==
    /\ op = "init"
    /\ args = None
    /\ err = ""
    /\ made = <<>>
    /\ decoded = <<>>
    /\ _contents = <<>>
    /\ _entries = <<>>
    /\ InitPage

\* DB_Page(page)
Open ==
    /\ status = "closed"
    /\ \E page \in MmapInputs :
        LET r == DB_Page_init(page)
        IN  /\ op' = "open"
            /\ args' = [page |-> page]
            /\ err' = r.err
            /\ _page' = r.page
            /\ _page_header' = r.page_header
            /\ _page_trailer' = r.page_trailer
            /\ _line_index' = r.line_index
            /\ _records' = r.records
            /\ status' = IF r.err = "" THEN "open" ELSE "failed"
            /\ UNCHANGED <<got, nops, pointerVars, indexVars>>

\* page[key]
GetItem ==
    /\ status = "open"
    /\ nops < MaxOps
    /\ \E key \in KeyInputs :
        LET pos == ListIndex(_records, key)
        IN  /\ op' = "get"
            /\ args' = [key |-> key]
            /\ err' = IF pos = -1 THEN "IndexError" ELSE ""
            /\ got' = IF pos = -1 THEN <<>> ELSE <<_records[pos]>>
            /\ nops' = nops + 1
            /\ UNCHANGED <<_page, _page_header, _page_trailer, _line_index,
                           _records, status, pointerVars, indexVars>>

\* page[key] = value
SetItem ==
    /\ status = "open"
    /\ nops < MaxOps
    /\ \E key \in KeyInputs, value \in RecordInputs :
        LET pos == ListIndex(_records, key)
        IN  /\ op' = "set"
            /\ args' = [key |-> key, value |-> value]
            /\ err' = IF pos = -1 THEN "IndexError" ELSE ""
            /\ _records' = IF pos = -1 THEN _records
                           ELSE [_records EXCEPT ![pos] = value]
            /\ nops' = nops + 1
            /\ UNCHANGED <<_page, _page_header, _page_trailer, _line_index,
                           status, got, pointerVars, indexVars>>

\* del page[key]
DelItem ==
    /\ status = "open"
    /\ nops < MaxOps
    /\ \E key \in KeyInputs :
        LET pos == ListIndex(_records, key)
        IN  /\ op' = "del"
            /\ args' = [key |-> key]
            /\ err' = IF pos = -1 THEN "IndexError" ELSE ""
            /\ _records' = IF pos = -1 THEN _records
                           ELSE ListDelete(_records, pos)
            /\ nops' = nops + 1
            /\ UNCHANGED <<_page, _page_header, _page_trailer, _line_index,
                           status, got, pointerVars, indexVars>>

Next == Open \/ GetItem \/ SetItem \/ DelItem

Spec == Init /\ [][Next]_vars

-----------------------------------------------------------------------------
(* LineIndex properties *)

\* C7: parsing a region whose length is a multiple of 8 gives len(region)/8
\* entries, each a full 8-byte group, in reverse stored order: entry k is the
\* k-th group counted from the end of the region.
C7_LineIndexReverse ==
    (op = "parse" /\ Len(_contents) % 8 = 0) =>
        /\ Len(_entries) = Len(_contents) \div 8
        /\ \A k \in 0..(Len(_entries) - 1) :
               _entries[k + 1].entry =
                   SubSeq(_contents, Len(_contents) - 8 * (k + 1) + 1,
                          Len(_contents) - 8 * k)

\* C9: parsing a region whose length is not a multiple of 8 raises the
\* malformed-index error and produces no entries.
C9_MalformedIndex ==
    (op = "parse" /\ Len(_contents) % 8 # 0) =>
        /\ err = "MalformedIndexError"
        /\ _entries = <<>>

-----------------------------------------------------------------------------
(* DB_Page properties *)

\* C5: opening a page raises the page-integrity error (the failed assert),
\* and yields no page, whenever bytes 0..3 of the buffer differ from its last
\* 4 bytes; it never raises it when they are equal.
C5_PageIntegrity ==
    op = "open" =>
        LET buf  == mmap_bytes(_page)
            head == SubSeq(buf, 1, 4)
            tail == SubSeq(buf, PAGE_SIZE - 3, PAGE_SIZE)
        IN  /\ Len(buf) = PAGE_SIZE
            /\ (head # tail) =>
                   /\ err = "AssertionError"
                   /\ status = "failed"
                   /\ _line_index = <<>>
                   /\ _records = <<>>
            /\ (head = tail) => err # "AssertionError"

C5_Witness ==
    /\ op = "open"
    /\ args.page.header_pn # args.page.trailer_pn
    /\ Len(args.page.tuples) > 0
    /\ err = "AssertionError"
    /\ status = "failed"

\* C6: for a well-formed buffer encoding N known (type, pointers, payload)
\* tuples, open succeeds, len() is N and item i is the Record with the i-th
\* tuple's type and payload.
C6_PageRoundTrip ==
    (op = "open" /\ args.page.corrupt = 0
                 /\ args.page.header_pn = args.page.trailer_pn) =>
        /\ status = "open"
        /\ DB_Page_len = Len(args.page.tuples)
        /\ \A i \in 1..Len(args.page.tuples) :
               Line_record(_records[i]) =
                   [record_type |-> args.page.tuples[i].type,
                    data |-> args.page.tuples[i].payload]

\* C8: open raises the out-of-bounds error whenever some line index entry has
\* offset + length greater than PAGE_SIZE - 8 * (count + 1), and never returns
\* a page one of whose lines was taken from beyond that limit.
C8_OutOfBounds ==
    (op = "open" /\ args.page.header_pn = args.page.trailer_pn) =>
        LET buf   == mmap_bytes(_page)
            count == buf[PAGE_SIZE - 7]
            limit == PAGE_SIZE - 8 * (count + 1)
            field(g, at) == 256 * buf[limit + 8 * (g - 1) + at]
                                + buf[limit + 8 * (g - 1) + at + 1]
            escapes == \E g \in 1..count : field(g, 3) + field(g, 5) > limit
        IN  /\ escapes => (err = "OutOfBoundsError" /\ status = "failed")
            /\ status = "open" =>
                   \A k \in 1..Len(_line_index[1].entries) :
                       LET entry == _line_index[1].entries[k]
                       IN  LineIndexEntry_offset(entry)
                               + LineIndexEntry_length(entry) <= limit

\* C10: in every state reached from a successful open by get, set and remove,
\* len() equals the trailer's line_index_count and the number of LineIndex
\* entries of the page.
C10_LenIsSlotCount ==
    status = "open" =>
        /\ DB_Page_len = PageTrailer_line_index_count(_page_trailer[1])
        /\ DB_Page_len = Len(_line_index[1].entries)

====
